---------------------------- MODULE Spec2Model ----------------------------
(***************************************************************************)
(* AgriScheme backend: the eligibility matching engine                     *)
(* (routes.py: get_eligible_schemes, add_scheme), the relevance ranker     *)
(* (ranking_service.py: rank_schemes) and the ingestion scripts            *)
(* (seed_db.py, add_new_schemes.py) that write the scheme store.           *)
(*                                                                         *)
(* The scheme store is the MongoDB collection "schemes": a sequence of     *)
(* documents in insertion (natural) order.  Land sizes are whole hectares;  *)
(* a benefit amount is held in half rupees (Rs(6000) is 6000.0, the        *)
(* integer 1 is 0.5); a relevance score s is held as the integer 10000 * s *)
(* (the code rounds scores to 4 decimals).                                 *)
(***************************************************************************)
EXTENDS Integers, Sequences, FiniteSets, TLC

VARIABLES
    store,  \* the schemes collection: a sequence of scheme documents
    resp,   \* the outcome of the most recent operation (an HTTP response or a script's result)
    last,   \* what the most recent operation received and computed on the way
    call    \* a direct call of a pure helper: its function, argument and return value

vars == <<store, resp, last, call>>

-----------------------------------------------------------------------------
(* Bounds of the model *)

MaxStore == 2      \* documents the store may hold
MaxFile == 2       \* schemes in the JSON file add_new_schemes reads
MaxCrops == 3      \* length of a crops list given to _normalise_crops
MaxRank == 3       \* schemes in a list given to rank_schemes directly
MaxThreads == 3    \* request threads that call _get_client concurrently

(* Program constants *)

DEFAULT_PAGE_SIZE == 20
MAX_PAGE_SIZE == 100
ScoreScale == 10000         \* round(combined_score, 4)
BenefitOne == 2             \* max_benefit = 1: the amount 1.0, in half rupees
SanitizeMaxLen == 100       \* _sanitize_string(max_len=100)
NameMaxLen == 200           \* add_scheme: max_len=200 for scheme_name
LandMin == 0                \* _sanitize_number(min_val=0)
LandMax == 10000            \* _sanitize_number(max_val=10000)
NaN == -1000001             \* float("nan"): stands apart from every number of the model
Infinity == 1000000         \* float("inf"): above every number of the model
DefaultMinLand == 0         \* add_new_schemes: raw.get("min_land", 0) or 0
DefaultMaxLand == 100       \* add_new_schemes: raw.get("max_land") or 100

-----------------------------------------------------------------------------
(* Generic helpers *)

Range(s) == {s[i] : i \in 1..Len(s)}

SeqsUpTo(S, n) == UNION {[1..k -> S] : k \in 0..n}

Min2(a, b) == IF a <= b THEN a ELSE b

Max2(a, b) == IF a >= b THEN a ELSE b

MaxOf(S) == CHOOSE x \in S : \A y \in S : y <= x

\* dict.get(key, default)
Get(d, key, default) == IF key \in DOMAIN d THEN d[key] ELSE default

\* the document d with d[key] = value assigned (the key is added when missing)
SetKey(d, key, value) == (key :> value) @@ d

\* d restricted to the keys in K
Restrict(d, K) == [k \in (DOMAIN d) \cap K |-> d[k]]

\* n / d rounded to the nearest integer, halves upwards (d # 0)
RoundDiv(n, d) ==
    LET num == IF d < 0 THEN 0 - n ELSE n
        den == IF d < 0 THEN 0 - d ELSE d
    IN  (num \div den) + (IF 2 * (num % den) >= den THEN 1 ELSE 0)

\* the benefit amount of n rupees
Rs(n) == n * BenefitOne

\* list.sort(key=..., reverse=True) and cursor.sort(field, -1): a stable
\* sort of s by keys (keys[i] is the key of s[i]), largest first; elements
\* with equal keys keep their order
StableSortDesc(s, keys) ==
    LET ins[i \in 0..Len(s)] ==
            IF i = 0 THEN <<>>
            ELSE LET prev == ins[i - 1]
                     n == Cardinality({j \in 1..Len(prev) : keys[prev[j]] >= keys[i]})
                 IN  SubSeq(prev, 1, n) \o <<i>> \o SubSeq(prev, n + 1, Len(prev))
        order == ins[Len(s)]
    IN  [j \in 1..Len(s) |-> s[order[j]]]

-----------------------------------------------------------------------------
(* JSON values of a request body: each carries its type *)

JStr(s) == [t |-> "str", v |-> s]
JNum(n) == [t |-> "num", v |-> n]
JBool(b) == [t |-> "bool", v |-> b]
JList(l) == [t |-> "list", v |-> l]
JNull == [t |-> "null"]
JDict == [t |-> "dict"]          \* a non-empty JSON object, e.g. {"$gt": ""}

\* Python truthiness of a JSON value
Truthy(x) ==
    CASE x.t = "str" -> x.v # ""
      [] x.t = "num" -> x.v # 0
      [] x.t = "bool" -> x.v
      [] x.t = "list" -> x.v # <<>>
      [] x.t = "null" -> FALSE
      [] OTHER -> TRUE

-----------------------------------------------------------------------------
(* Strings.  The strings of the model are fixed; what the code computes    *)
(* from one (strip, len, the _SAFE_STRING match, startswith) is tabulated. *)

LongString == "Punjab x101"      \* stands for a string of 101 characters

\* str.strip()
Strip(s) ==
    CASE s = " Punjab " -> "Punjab"
      [] s = " Legacy Central Scheme " -> "Legacy Central Scheme"
      [] s = "   " -> ""
      [] OTHER -> s

\* len(): every string of the model but LongString is shorter than 100
StrLen(s) == IF s = LongString THEN 101 ELSE 40

\* mutant of _sanitize_string: the character checks are missing
SanitizeStringNoCharCheck(value, field_name, max_len) ==
    IF value.t # "str" THEN [ok |-> FALSE, field |-> field_name, msg |-> "must be a string"]
    ELSE IF Strip(value.v) = ""
    THEN [ok |-> FALSE, field |-> field_name, msg |-> "is required"]
    ELSE [ok |-> TRUE, v |-> Strip(value.v)]

\* _SAFE_STRING.match(value): word characters, spaces and - . , ( ) / & '
SafeStringMatch(s) == s \notin {"$gt", "Punjab; DROP"}

\* value.startswith("$")
StartsWithDollar(s) == s \in {"$gt"}

Ok(v) == [ok |-> TRUE, v |-> v]
Err(field, msg) == [ok |-> FALSE, field |-> field, msg |-> msg]

_sanitize_string(value, field_name, max_len) ==
    IF value.t # "str" THEN Err(field_name, "must be a string")
    ELSE LET s == Strip(value.v) IN
         IF s = "" THEN Err(field_name, "is required")
         ELSE IF StrLen(s) > max_len THEN Err(field_name, "exceeds maximum length")
         ELSE IF ~SafeStringMatch(s) THEN Err(field_name, "contains invalid characters")
         ELSE IF StartsWithDollar(s) THEN Err(field_name, "contains invalid characters")
         ELSE Ok(s)

\* a < b and a <= b on floats: every comparison with nan is false
FloatLess(a, b) == a # NaN /\ b # NaN /\ a < b

FloatLessEq(a, b) == a # NaN /\ b # NaN /\ a <= b

\* value is a JSON value; json.loads reads the literals NaN and Infinity as
\* the floats nan and inf (JNum(NaN), JNum(Infinity))
_sanitize_number(value, field_name, min_val, max_val) ==
    IF value.t = "bool" THEN Err(field_name, "must be a number")
    ELSE IF value.t # "num" THEN Err(field_name, "must be a number")
    ELSE IF FloatLess(value.v, min_val) \/ FloatLess(max_val, value.v)
    THEN Err(field_name, "out of range")
    ELSE Ok(value.v)

-----------------------------------------------------------------------------
(* The eligibility query of get_eligible_schemes *)

\* mutant of BuildQuery: a missing season is filtered as "All"
BuildQuerySeasonDefaultAll(state, crop, land_size, season) ==
    [states_in |-> {state, "All", "All India"},
     crops_in |-> {crop, "All", "All Crops"},
     min_land_lte |-> land_size,
     max_land_gte |-> land_size,
     season_or |-> {IF Truthy(season) THEN season.v ELSE "All", "All", ""}]

\* query = {"states": {"$in": [...]}, "crops": {"$in": [...]},
\*          "min_land": {"$lte": land_size}, "max_land": {"$gte": land_size}}
\* and, when a season was given, query["$or"] over the season field.
\* season is JNull (Python None) or the sanitised season string.
BuildQuery(state, crop, land_size, season) ==
    LET base == [states_in |-> {state, "All", "All India"},
                 crops_in |-> {crop, "All", "All Crops"},
                 min_land_lte |-> land_size,
                 max_land_gte |-> land_size]
    IN  IF Truthy(season)
        THEN SetKey(base, "season_or", {season.v, "All", ""})
        ELSE base

\* mutant of StateCond: the "All" sentinel is left out of the $in list
StateCondNoSentinel(doc, q) ==
    "states" \in DOMAIN doc /\ Range(doc.states) \cap (q.states_in \ {"All"}) # {}

\* mutant of StateCond: the state condition is dropped
StateCondAny(doc, q) == "states" \in DOMAIN doc

\* {"states": {"$in": [state, "All", "All India"]}} on an array field:
\* some element of the array is one of the listed values
StateCond(doc, q) ==
    "states" \in DOMAIN doc /\ Range(doc.states) \cap q.states_in # {}

\* {"crops": {"$in": [crop, "All", "All Crops"]}}
CropCond(doc, q) ==
    "crops" \in DOMAIN doc /\ Range(doc.crops) \cap q.crops_in # {}

\* mutant of LandCond: only the lower bound is checked
LandCondMinOnly(doc, q) ==
    "min_land" \in DOMAIN doc /\ doc.min_land <= q.min_land_lte

\* mutant of LandCond: $lt and $gt for $lte and $gte
LandCondStrict(doc, q) ==
    /\ "min_land" \in DOMAIN doc /\ doc.min_land < q.min_land_lte
    /\ "max_land" \in DOMAIN doc /\ doc.max_land > q.max_land_gte

\* {"min_land": {"$lte": land_size}, "max_land": {"$gte": land_size}}
LandCond(doc, q) ==
    /\ "min_land" \in DOMAIN doc /\ FloatLessEq(doc.min_land, q.min_land_lte)
    /\ "max_land" \in DOMAIN doc /\ FloatLessEq(q.max_land_gte, doc.max_land)

\* mutant of SeasonCond: the {"season": {"$exists": False}} branch is missing
SeasonCondNoAbsent(doc, q) ==
    "season_or" \in DOMAIN q =>
        ("season" \in DOMAIN doc /\ doc.season \in q.season_or)

\* query["$or"] = [{"season": season}, {"season": "All"}, {"season": ""},
\*                 {"season": {"$exists": False}}], present only with a season
SeasonCond(doc, q) ==
    "season_or" \in DOMAIN q =>
        ("season" \notin DOMAIN doc \/ doc.season \in q.season_or)

\* a document matches the query: the top-level keys of a query are ANDed
Matches(doc, q) ==
    StateCond(doc, q) /\ CropCond(doc, q) /\ LandCond(doc, q) /\ SeasonCond(doc, q)

ProjectionFields ==
    {"scheme_name", "type", "benefit", "benefit_amount", "states", "crops",
     "season", "min_land", "max_land", "documents_required", "official_link",
     "description"}

\* find(query, projection): the matching documents in natural order, projected
Find(st, q) ==
    LET hits == SelectSeq(st, LAMBDA d : Matches(d, q))
    IN  [i \in 1..Len(hits) |-> Restrict(hits[i], ProjectionFields)]

\* .sort("benefit_amount", -1): by amount, largest first; a missing or null
\* field sorts below every number
SortByBenefit(docs) ==
    LET by_amount ==
            StableSortDesc(docs, [i \in 1..Len(docs) |-> Get(docs[i], "benefit_amount", 0)])
    IN  StableSortDesc(by_amount,
                       [i \in 1..Len(by_amount) |->
                           IF "benefit_amount" \in DOMAIN by_amount[i] THEN 1 ELSE 0])

\* .skip(skip).limit(limit) of the driver: limit 0 is no limit, a negative
\* limit is its absolute value
SkipLimit(docs, skip, limit) ==
    LET rest == SubSeq(docs, skip + 1, Len(docs))
        n == IF limit = 0 THEN Len(rest)
             ELSE Min2(Len(rest), IF limit < 0 THEN -limit ELSE limit)
    IN  SubSeq(rest, 1, n)

\* count_documents(query)
CountDocuments(st, q) == Len(SelectSeq(st, LAMBDA d : Matches(d, q)))

-----------------------------------------------------------------------------
(* ranking_service.py *)

\* max((s.get("benefit_amount", 0) for s in schemes), default=1), then 1 for 0
MaxBenefit(schemes) ==
    LET m == IF schemes = <<>> THEN 1
             ELSE MaxOf({Get(schemes[i], "benefit_amount", 0) : i \in 1..Len(schemes)})
    IN  IF m = 0 THEN BenefitOne ELSE m

\* mutant of CombinedScore: the benefit amount is floored at 1
CombinedScoreBenefitFloor(sim, benefit_amount, max_benefit) ==
    RoundDiv(3 * sim * max_benefit + 2 * ScoreScale * Max2(benefit_amount, BenefitOne),
             5 * max_benefit)

\* round(0.6 * tfidf_score + 0.4 * benefit_amount / max_benefit, 4), times 10000;
\* sim is 10000 * tfidf_score
CombinedScore(sim, benefit_amount, max_benefit) ==
    RoundDiv(3 * sim * max_benefit + 2 * ScoreScale * benefit_amount, 5 * max_benefit)

\* mutant of SortByRelevance: reverse=True is missing
SortByRelevanceAscending(schemes) ==
    StableSortDesc(schemes,
                   [i \in 1..Len(schemes) |-> 0 - Get(schemes[i], "relevance_score", 0)])

\* mutant of SortByRelevance: schemes of equal score come out in the reverse
\* of their input order
SortByRelevanceTiesReversed(schemes) ==
    LET n == Len(schemes)
        rev == [i \in 1..n |-> schemes[n + 1 - i]]
    IN  StableSortDesc(rev, [i \in 1..n |-> Get(rev[i], "relevance_score", 0)])

\* mutant of SortByRelevance: schemes whose score is not positive are left
\* out of the sorted list
SortByRelevanceDropZero(schemes) ==
    LET kept == SelectSeq(schemes, LAMBDA d : Get(d, "relevance_score", 0) > 0)
    IN  StableSortDesc(kept, [i \in 1..Len(kept) |-> Get(kept[i], "relevance_score", 0)])

\* schemes.sort(key=lambda s: s.get("relevance_score", 0), reverse=True)
SortByRelevance(schemes) ==
    StableSortDesc(schemes,
                   [i \in 1..Len(schemes) |-> Get(schemes[i], "relevance_score", 0)])

\* a field the document holds with the value null (Python None); the names
\* of such fields are kept in the document's "nulls" entry
IsNull(doc, key) == "nulls" \in DOMAIN doc /\ key \in doc.nulls

\* _build_scheme_profile raises: min_land <= 2 or max_land >= 10 on None
BuildProfileRaises(scheme) == IsNull(scheme, "min_land") \/ IsNull(scheme, "max_land")

\* max(...) over the benefit amounts raises: None is compared with a value
MaxBenefitRaises(schemes) ==
    \E i \in 1..Len(schemes) : IsNull(schemes[i], "benefit_amount")

\* the try block of rank_schemes raises
RankRaises(schemes) ==
    (\E i \in 1..Len(schemes) : BuildProfileRaises(schemes[i])) \/ MaxBenefitRaises(schemes)

\* mutant of Fallback: only the schemes that could be profiled are returned
FallbackDropMalformed(schemes) ==
    LET kept == SelectSeq(schemes, LAMBDA x : "nulls" \notin DOMAIN x)
    IN  [i \in 1..Len(kept) |-> SetKey(kept[i], "relevance_score", ScoreScale \div 2)]

\* except Exception: every scheme gets relevance_score 0.5, the list is
\* returned as it is
Fallback(schemes) ==
    [i \in 1..Len(schemes) |-> SetKey(schemes[i], "relevance_score", ScoreScale \div 2)]

\* mutant of rank_schemes: a single scheme is scored like any other list
RankSchemesNoSingleton(schemes, sims) ==
    LET max_benefit == MaxBenefit(schemes)
        scored == [i \in 1..Len(schemes) |->
                     SetKey(schemes[i], "relevance_score",
                            CombinedScore(sims[i], Get(schemes[i], "benefit_amount", 0),
                                          max_benefit))]
    IN  SortByRelevance(scored)

\* rank_schemes(schemes, ...): sims[i] is the cosine similarity (times 10000)
\* that the TF-IDF step gives scheme i against the farmer profile
rank_schemes(schemes, sims) ==
    IF Len(schemes) = 0 THEN schemes
    ELSE IF Len(schemes) = 1
    THEN <<SetKey(schemes[1], "relevance_score", ScoreScale)>>
    ELSE IF RankRaises(schemes) THEN Fallback(schemes)
    ELSE LET max_benefit == MaxBenefit(schemes)
             scored == [i \in 1..Len(schemes) |->
                          SetKey(schemes[i], "relevance_score",
                                 CombinedScore(sims[i],
                                               Get(schemes[i], "benefit_amount", 0),
                                               max_benefit))]
         IN  SortByRelevance(scored)

-----------------------------------------------------------------------------
(* POST /api/getEligibleSchemes *)

\* the required and optional fields of the body, validated; season is JNull
\* (None) unless the body holds a truthy season
ParseProfile(data) ==
    LET state == _sanitize_string(Get(data, "state", JStr("")), "state", SanitizeMaxLen)
        crop == _sanitize_string(Get(data, "crop", JStr("")), "crop", SanitizeMaxLen)
        land_size == _sanitize_number(Get(data, "land_size", JNull), "land_size",
                                      LandMin, LandMax)
        given == "season" \in DOMAIN data /\ Truthy(data["season"])
        season == IF given
                  THEN _sanitize_string(data["season"], "season", SanitizeMaxLen)
                  ELSE Ok("")
    IN  IF ~state.ok THEN state
        ELSE IF ~crop.ok THEN crop
        ELSE IF ~land_size.ok THEN land_size
        ELSE IF ~season.ok THEN season
        ELSE Ok([state |-> state.v, crop |-> crop.v, land_size |-> land_size.v,
                 season |-> IF given THEN JStr(season.v) ELSE JNull])

\* int(s) for the text of a query parameter: its value, or a ValueError
\* (tabulated for the model's texts)
ParseInt(s) ==
    CASE s = "-1" -> Ok(0 - 1)
      [] s = "0" -> Ok(0)
      [] s = "1" -> Ok(1)
      [] s = "2" -> Ok(2)
      [] s = "200" -> Ok(200)
      [] OTHER -> Err("args", "invalid literal for int() with base 10")

\* page = max(1, int(args.get("page", 1)));
\* limit = min(int(args.get("limit", DEFAULT_PAGE_SIZE)), MAX_PAGE_SIZE);
\* skip = (page - 1) * limit
Paginate(args) ==
    LET p == IF "page" \in DOMAIN args THEN ParseInt(args["page"]) ELSE Ok(1)
        l == IF "limit" \in DOMAIN args THEN ParseInt(args["limit"])
             ELSE Ok(DEFAULT_PAGE_SIZE)
    IN  IF ~p.ok THEN p
        ELSE IF ~l.ok THEN l
        ELSE LET page == Max2(1, p.v)
                 limit == Min2(l.v, MAX_PAGE_SIZE)
             IN  Ok([page |-> page, limit |-> limit, skip |-> (page - 1) * limit])

BadRequest(field, msg) == [status |-> 400, field |-> field, error |-> msg]

ServerError == [status |-> 500, error |-> "Internal server error"]

\* the handler up to and including the two store reads: an error response,
\* or the sorted page, the total and the pagination of a request that passed
EligibleQuery(req, st) ==
    IF req.json # "dict" \/ DOMAIN req.data = {}
    THEN [done |-> TRUE, resp |-> BadRequest("body", "Request body must be a JSON object")]
    ELSE LET prof == ParseProfile(req.data) IN
         IF ~prof.ok
         THEN [done |-> TRUE, resp |-> BadRequest(prof.field, prof.msg)]
         ELSE LET p == prof.v
                  q == BuildQuery(p.state, p.crop, p.land_size, p.season)
                  pgn == Paginate(req.args)
              IN  IF ~pgn.ok
                  THEN [done |-> TRUE, resp |-> ServerError]   \* int() raises
                  ELSE IF pgn.v.skip < 0
                  THEN [done |-> TRUE, resp |-> ServerError]   \* cursor.skip() raises
                  ELSE LET matched == SortByBenefit(Find(st, q))
                           pg == pgn.v
                       IN  [done |-> FALSE, profile |-> p, query |-> q, pg |-> pg,
                            matched |-> matched,
                            page |-> SkipLimit(matched, pg.skip, pg.limit),
                            total |-> CountDocuments(st, q)]

\* if len(schemes) > 1: schemes = rank_schemes(schemes, ...)
RankPage(page, sims) == IF Len(page) > 1 THEN rank_schemes(page, sims) ELSE page

EligibleResponse(e, sims) ==
    LET schemes == RankPage(e.page, sims)
    IN  [status |-> 200, success |-> TRUE, count |-> Len(schemes), total |-> e.total,
         page |-> e.pg.page, limit |-> e.pg.limit, schemes |-> schemes]

-----------------------------------------------------------------------------
(* The inputs of the model *)

\* cosine similarities (times 10000) the TF-IDF step may give a scheme
SimValues == {0, 5000, 10000}

ProfileBodies ==
    {[state |-> JStr(s), crop |-> JStr(c), land_size |-> JNum(l)] :
        s \in {"Punjab", "Atlantis"}, c \in {"Wheat", "Rice"}, l \in {1, 2, 5}}

SeasonInputs == {JStr(""), JStr("Rabi"), JStr("Kharif")}

ValidBodies ==
    ProfileBodies \cup {SetKey(b, "season", x) : b \in ProfileBodies, x \in SeasonInputs}

BaseBody == [state |-> JStr("Punjab"), crop |-> JStr("Wheat"), land_size |-> JNum(2)]

OddBodies ==
    {[x \in {} |-> JNull],                                \* {}
     [crop |-> JStr("Wheat"), land_size |-> JNum(2)],     \* state missing
     SetKey(BaseBody, "state", JStr(" Punjab ")),         \* stripped, then valid
     SetKey(BaseBody, "state", JStr("$gt")),
     SetKey(BaseBody, "state", JDict),
     SetKey(BaseBody, "crop", JStr(LongString)),
     SetKey(BaseBody, "land_size", JNum(-1)),
     SetKey(BaseBody, "land_size", JBool(TRUE)),
     SetKey(BaseBody, "land_size", JNum(Infinity)),
     SetKey(BaseBody, "land_size", JNum(NaN)),
     SetKey(BaseBody, "season", JBool(FALSE)),
     SetKey(BaseBody, "season", JDict),
     SetKey(BaseBody, "season", JStr("   ")),
     SetKey(BaseBody, "season", JNull)}

\* the query parameters of most requests, as the texts the URL holds
ArgSets ==
    {[x \in {} |-> ""], [limit |-> "1"], [page |-> "2", limit |-> "1"],
     [page |-> "0", limit |-> "2"]}

\* query parameters sent with the base body only: a zero, negative or
\* oversized limit, and a page that is not a number
OddArgSets ==
    {[limit |-> "0"], [limit |-> "-1"], [page |-> "2", limit |-> "-1"],
     [limit |-> "200"], [page |-> "abc"]}

Requests ==
    {[json |-> "dict", data |-> b, args |-> a] : b \in ValidBodies \cup OddBodies, a \in ArgSets}
    \cup {[json |-> "dict", data |-> BaseBody, args |-> a] : a \in OddArgSets}
    \cup {[json |-> "list", data |-> [x \in {} |-> JNull], args |-> [x \in {} |-> ""]]}

-----------------------------------------------------------------------------
(* POST /api/addScheme *)

\* _parse_benefit_amount: the first run of digits of the benefit text with
\* its commas removed, 0 when there is none (tabulated for the model's texts)
_parse_benefit_amount(benefit) ==
    IF ~Truthy(benefit) THEN 0
    ELSE CASE benefit.v = "Rs 10,000 per year" -> Rs(10000)
           [] benefit.v = "Rs 6,000 per year" -> Rs(6000)
           [] OTHER -> 0

RequiredFields ==
    {"scheme_name", "type", "states", "crops", "min_land", "max_land", "benefit"}

\* the stored form of a body: every JSON value as the document holds it
Untag(data) ==
    LET nulls == {k \in DOMAIN data : data[k].t = "null"}
        doc == [k \in DOMAIN data \ nulls |-> data[k].v]
    IN  IF nulls = {} THEN doc ELSE SetKey(doc, "nulls", nulls)

\* add_scheme(data): the response, and the document to insert when it is 201.
\* A ValueError of a sanitiser is not caught before the outer handler: 500.
add_scheme(req) ==
    IF req.json # "dict" \/ DOMAIN req.data = {}
    THEN [resp |-> BadRequest("body", "Request body must be a JSON object")]
    ELSE LET data == req.data IN
         IF RequiredFields \ DOMAIN data # {}
         THEN [resp |-> BadRequest("body", "Missing required fields")]
         ELSE LET name == _sanitize_string(data["scheme_name"], "scheme_name", NameMaxLen)
                  type == _sanitize_string(data["type"], "type", SanitizeMaxLen)
                  min_land == _sanitize_number(data["min_land"], "min_land", LandMin, LandMax)
                  max_land == _sanitize_number(data["max_land"], "max_land", LandMin, LandMax)
              IN  IF ~(name.ok /\ type.ok /\ min_land.ok /\ max_land.ok)
                  THEN [resp |-> ServerError]
                  ELSE IF data["states"].t # "list"
                  THEN [resp |-> BadRequest("states", "states must be a list")]
                  ELSE IF data["crops"].t # "list"
                  THEN [resp |-> BadRequest("crops", "crops must be a list")]
                  ELSE LET clean == [k \in DOMAIN data |->
                                       CASE k = "scheme_name" -> JStr(name.v)
                                         [] k = "type" -> JStr(type.v)
                                         [] k = "min_land" -> JNum(min_land.v)
                                         [] k = "max_land" -> JNum(max_land.v)
                                         [] OTHER -> data[k]]
                           full == IF "benefit_amount" \in DOMAIN clean THEN clean
                                   ELSE SetKey(clean, "benefit_amount",
                                               JNum(_parse_benefit_amount(clean["benefit"])))
                       IN  [resp |-> [status |-> 201, message |-> "Scheme added successfully"],
                            doc |-> Untag(full)]

\* bodies an admin may post
PMKisanBody ==
    [scheme_name |-> JStr("PM-KISAN"), type |-> JStr("Income Support"),
     benefit |-> JStr("Rs 6,000 per year"), benefit_amount |-> JNum(Rs(6000)),
     states |-> JList(<<"All">>), crops |-> JList(<<"All">>),
     min_land |-> JNum(0), max_land |-> JNum(100), season |-> JStr("All")]

SmallFarmerBody ==
    [scheme_name |-> JStr("Small and Marginal Farmers Support Scheme"),
     type |-> JStr("Subsidy"), benefit |-> JStr("Rs 10,000 per year"),
     states |-> JList(<<"All">>), crops |-> JList(<<"All">>),
     min_land |-> JNum(0), max_land |-> JNum(2), season |-> JStr("All")]

LegacyBody ==
    [scheme_name |-> JStr(" Legacy Central Scheme "), type |-> JStr("Service"),
     benefit |-> JStr("Comprehensive coverage"),
     states |-> JList(<<"All India">>), crops |-> JList(<<"All Crops">>),
     min_land |-> JNum(2), max_land |-> JNum(100)]

FoodCropsBody ==
    [scheme_name |-> JStr("Food Security Mission"), type |-> JStr("Subsidy"),
     benefit |-> JStr("Seed subsidy"), benefit_amount |-> JNum(Rs(6000)),
     states |-> JList(<<"All">>), crops |-> JList(<<"Food Crops", "Wheat">>),
     min_land |-> JNum(0), max_land |-> JNum(100), season |-> JStr("")]

PunjabWheatBody ==
    [scheme_name |-> JStr("Punjab Wheat MSP Bonus Scheme"), type |-> JStr("Subsidy"),
     benefit |-> JStr("MSP bonus"), benefit_amount |-> JNum(Rs(20000)),
     states |-> JList(<<"Punjab">>), crops |-> JList(<<"Wheat">>),
     min_land |-> JNum(0), max_land |-> JNum(100), season |-> JStr("Rabi")]

AddSchemeRequests ==
    {[json |-> "dict", data |-> b] :
        b \in {PMKisanBody, SmallFarmerBody, LegacyBody, FoodCropsBody, PunjabWheatBody,
               Restrict(PMKisanBody, RequiredFields \ {"benefit"}),
               SetKey(PMKisanBody, "min_land", JStr("two")),
               SetKey(PMKisanBody, "states", JStr("All")),
               SetKey(PMKisanBody, "crops", JStr("All"))}}
    \cup {[json |-> "none", data |-> [x \in {} |-> JNull]]}

-----------------------------------------------------------------------------
(* add_new_schemes.py *)

\* STATE_NORMALISE.get(s, s) for each state
_normalise_states(states_list) ==
    [i \in 1..Len(states_list) |->
        IF states_list[i] \in {"All India", "Participating States"} THEN "All"
        ELSE states_list[i]]

\* the crop names of the model in the order sorted() gives them
SortedNames ==
    <<"Agriculture", "All", "All Crops", "All Notified Crops", "Food Crops", "Rice", "Wheat">>

\* sorted(S) for a set of crop names
Sorted(S) == SelectSeq(SortedNames, LAMBDA c : c \in S)

\* crop_map.get(c), or c itself when the map has no entry
MapCrop(c) ==
    IF c \in {"All Crops", "All", "All Notified Crops", "Food Crops", "Agriculture"}
    THEN "All" ELSE c

\* mutant of _normalise_crops: "All" is kept beside the specific crops
NormaliseCropsKeepAll(crops_list) ==
    Sorted({MapCrop(crops_list[i]) : i \in 1..Len(crops_list)})

_normalise_crops(crops_list) ==
    LET normalised == {MapCrop(crops_list[i]) : i \in 1..Len(crops_list)}
    IN  IF "All" \in normalised THEN <<"All">> ELSE Sorted(normalised)

\* mutant of _normalise_season: the composite season is returned as it is
NormaliseSeasonKeepComposite(season) ==
    IF ~Truthy(season) \/ season.v \in {"All", "all"} THEN "All"
    ELSE season.v

\* season is a JSON value: None, or a string
_normalise_season(season) ==
    IF ~Truthy(season) \/ season.v \in {"All", "all"} THEN "All"
    ELSE IF season.v \in {"Kharif/Rabi", "kharif/rabi"} THEN "All"
    ELSE season.v

\* x or default
OrDefault(x, default) == IF Truthy(x) THEN x.v ELSE default

\* the document add_new_schemes builds from one raw scheme of the file
NormaliseScheme(raw) ==
    [scheme_name |-> raw["scheme_name"].v,
     type |-> Get(raw, "type", JStr("Other")).v,
     benefit |-> Get(raw, "benefit", JStr("")).v,
     benefit_amount |-> OrDefault(Get(raw, "benefit_amount", JNull), 0),
     states |-> _normalise_states(Get(raw, "states", JList(<<"All">>)).v),
     crops |-> _normalise_crops(Get(raw, "crops", JList(<<"All">>)).v),
     min_land |-> OrDefault(Get(raw, "min_land", JNum(0)), DefaultMinLand),
     max_land |-> OrDefault(Get(raw, "max_land", JNull), DefaultMaxLand),
     season |-> _normalise_season(Get(raw, "season", JNull))]

\* mutant of ToInsert: every scheme of the file is inserted, the names the
\* store holds included
ToInsertAll(file, st) ==
    [i \in 1..Len(file) |-> NormaliseScheme(file[i])]

\* the schemes add_new_schemes inserts: those whose name the store lacks
ToInsert(file, st) ==
    LET existing_names == {st[i].scheme_name : i \in 1..Len(st)}
        fresh == SelectSeq(file, LAMBDA raw : raw["scheme_name"].v \notin existing_names)
    IN  [i \in 1..Len(fresh) |-> NormaliseScheme(fresh[i])]

\* raw schemes the JSON file may hold
RawKalia ==
    [scheme_name |-> JStr("KALIA Scheme"), type |-> JStr("Income Support"),
     benefit |-> JStr("Rs 25,000 over 5 seasons"), benefit_amount |-> JNull,
     states |-> JList(<<"All India">>), crops |-> JList(<<"All Crops", "Rice">>),
     min_land |-> JNull, max_land |-> JNull, season |-> JStr("Kharif/Rabi")]

RawPMKisan ==
    [scheme_name |-> JStr("PM-KISAN"), type |-> JStr("Income Support"),
     benefit |-> JStr("Rs 6,000 per year"), benefit_amount |-> JNum(Rs(6000)),
     states |-> JList(<<"All">>), crops |-> JList(<<"All">>),
     min_land |-> JNum(0), max_land |-> JNum(100), season |-> JStr("All")]

RawTamilNadu ==
    [scheme_name |-> JStr("Tamil Nadu Crop Insurance"), type |-> JStr("Insurance"),
     benefit |-> JStr("Crop insurance"), benefit_amount |-> JNum(Rs(12000)),
     states |-> JList(<<"Tamil Nadu">>), crops |-> JList(<<"Wheat", "Rice", "Wheat">>),
     min_land |-> JNum(0), max_land |-> JNum(10), season |-> JStr("Kharif")]

RawSchemes == {RawKalia, RawPMKisan, RawTamilNadu}

Files == SeqsUpTo(RawSchemes, MaxFile)

-----------------------------------------------------------------------------
(* seed_db.py *)

\* two of the 33 schemes seed_database inserts
SeedSchemes ==
    <<[scheme_name |-> "PM-KISAN", type |-> "Income Support",
       benefit |-> "Rs 6,000 per year", benefit_amount |-> Rs(6000),
       states |-> <<"All">>, crops |-> <<"All">>,
       min_land |-> 0, max_land |-> 100, season |-> "All"],
      [scheme_name |-> "Punjab Wheat MSP Bonus Scheme", type |-> "Subsidy",
       benefit |-> "MSP bonus", benefit_amount |-> Rs(20000),
       states |-> <<"Punjab">>, crops |-> <<"Wheat">>,
       min_land |-> 0, max_land |-> 100, season |-> "Rabi"]>>

-----------------------------------------------------------------------------
(* scraper.py *)

\* the scheme scrape_pmkisan gives
ScrapedPMKisan ==
    [scheme_name |-> "PM-KISAN", type |-> "Income Support",
     benefit |-> "Rs 6,000 per year (Rs 2,000 x 3 installments)",
     benefit_amount |-> Rs(6000),
     states |-> <<"All">>, crops |-> <<"All">>,
     min_land |-> 0, max_land |-> 100, season |-> "All",
     source |-> "pmkisan.gov.in"]

\* a scheme scrape_agricoop gives, named by the page it reads
ScrapedAgricoop ==
    [scheme_name |-> "Food Security Mission", type |-> "Subsidy",
     benefit |-> "Government subsidy", benefit_amount |-> 0,
     states |-> <<"All">>, crops |-> <<"All">>,
     min_land |-> 0, max_land |-> 100, season |-> "All",
     source |-> "agricoop.nic.in"]

\* the lists scrape_all_sources may give
ScrapedLists == {<<ScrapedPMKisan>>, <<ScrapedAgricoop, ScrapedPMKisan>>}

\* update_one({"scheme_name": name}, {"$set": scheme}, upsert=True): the
\* first document of that name gets the fields of scheme, and scheme is
\* inserted when there is none
UpdateOneUpsert(st, scheme) ==
    LET hits == {i \in 1..Len(st) : st[i].scheme_name = scheme.scheme_name}
    IN  IF hits = {} THEN Append(st, scheme)
        ELSE LET i == CHOOSE h \in hits : \A g \in hits : h <= g
             IN  [st EXCEPT ![i] = scheme @@ st[i]]

RECURSIVE insert_into_db(_, _)
\* insert_into_db(schemes): one upsert per scheme, in order
insert_into_db(st, schemes) ==
    IF schemes = <<>> THEN st
    ELSE insert_into_db(UpdateOneUpsert(st, Head(schemes)), Tail(schemes))

-----------------------------------------------------------------------------
(* The state machine *)

None == [op |-> "none"]

NoCall == [fn |-> "none"]

Init ==
    /\ store = <<>>
    /\ resp = None
    /\ last = None
    /\ call = NoCall

\* no operation's outcome is waiting to be read: the model runs one operation
\* at a time
Idle == resp = None

\* POST /api/getEligibleSchemes with any request; the similarities of the
\* ranked page are whatever the TF-IDF step computes
GetEligibleSchemes ==
    \E req \in Requests :
        LET e == EligibleQuery(req, store) IN
        /\ Idle
        /\ IF e.done
           THEN /\ resp' = e.resp
                /\ last' = [op |-> "getEligibleSchemes", req |-> req]
           ELSE \E sims \in [1..(IF Len(e.page) > 1 THEN Len(e.page) ELSE 0) -> SimValues] :
                /\ resp' = EligibleResponse(e, sims)
                /\ last' = [op |-> "getEligibleSchemes", req |-> req,
                            profile |-> e.profile, query |-> e.query,
                            matched |-> e.matched, sims |-> sims]
        /\ UNCHANGED <<store, call>>

\* POST /api/addScheme
AddScheme ==
    \E req \in AddSchemeRequests :
        LET r == add_scheme(req) IN
        /\ Idle
        /\ r.resp.status = 201 => Len(store) < MaxStore
        /\ store' = IF r.resp.status = 201 THEN Append(store, r.doc) ELSE store
        /\ resp' = r.resp
        /\ last' = [op |-> "addScheme", req |-> req]
        /\ UNCHANGED call

\* python add_new_schemes.py, with any file
AddNewSchemes ==
    \E file \in Files :
        LET to_insert == ToInsert(file, store) IN
        /\ Idle
        /\ Len(store) + Len(to_insert) <= MaxStore
        /\ store' = store \o to_insert
        /\ resp' = [op |-> "add_new_schemes", inserted |-> Len(to_insert)]
        /\ last' = [op |-> "add_new_schemes", file |-> file]
        /\ UNCHANGED call

\* python seed_db.py: drop the collection, insert the seed schemes
SeedDatabase ==
    /\ Idle
    /\ store' = SeedSchemes
    /\ resp' = [op |-> "seed_database", inserted |-> Len(SeedSchemes)]
    /\ last' = [op |-> "seed_database"]
    /\ UNCHANGED call

\* python scraper.py --insert
InsertIntoDb ==
    \E schemes \in ScrapedLists :
        LET after == insert_into_db(store, schemes) IN
        /\ Idle
        /\ Len(after) <= MaxStore
        /\ store' = after
        /\ resp' = [op |-> "insert_into_db", inserted |-> Len(after) - Len(store)]
        /\ last' = [op |-> "insert_into_db", schemes |-> schemes]
        /\ UNCHANGED call

\* the caller reads the outcome of the operation
Observe ==
    /\ ~Idle
    /\ resp' = None
    /\ last' = None
    /\ UNCHANGED <<store, call>>

Next ==
    \/ GetEligibleSchemes
    \/ AddScheme
    \/ AddNewSchemes
    \/ SeedDatabase
    \/ InsertIntoDb
    \/ Observe

Spec == Init /\ [][Next]_vars

-----------------------------------------------------------------------------
(* Direct calls of the pure helpers *)

CropNames ==
    {"All", "All Crops", "All Notified Crops", "Food Crops", "Agriculture", "Wheat", "Rice"}

CropLists == SeqsUpTo(CropNames, MaxCrops)

InitNorm ==
    /\ store = <<>>
    /\ resp = None
    /\ last = None
    /\ call \in {[fn |-> "_normalise_crops", arg |-> l, done |-> FALSE, ret |-> <<>>] :
                    l \in CropLists}

NormaliseCrops ==
    /\ call.fn = "_normalise_crops"
    /\ ~call.done
    /\ call' = [call EXCEPT !.done = TRUE, !.ret = _normalise_crops(call.arg)]
    /\ UNCHANGED <<store, resp, last>>

NextNorm == NormaliseCrops

SpecNorm == InitNorm /\ [][NextNorm]_vars

\* season values a raw scheme may hold; JNull is also what raw.get("season")
\* gives when the key is absent
SeasonValues ==
    {JNull, JStr(""), JStr("All"), JStr("all"), JStr("ALL"), JStr("Kharif/Rabi"),
     JStr("kharif/rabi"), JStr("Kharif"), JStr("Rabi"), JStr("Zaid")}

\* stands for a raw scheme without the key
Absent == [t |-> "absent"]

\* what a raw scheme may hold as min_land or max_land
LandValues == {Absent, JNull, JNum(0), JNum(2), JNum(100)}

\* raw with the key set to x, or without the key when x is Absent
WithKey(raw, key, x) ==
    IF x = Absent THEN Restrict(raw, DOMAIN raw \ {key}) ELSE SetKey(raw, key, x)

\* the raw schemes of the direct calls: one scheme of the file with every
\* combination of land bounds and season
RawVariants ==
    {WithKey(WithKey(SetKey(RawTamilNadu, "season", se), "min_land", lo), "max_land", hi) :
        lo \in LandValues, hi \in LandValues, se \in SeasonValues}

InitIngest ==
    /\ store = <<>>
    /\ resp = None
    /\ last = None
    /\ \/ \E se \in SeasonValues :
              call = [fn |-> "_normalise_season", arg |-> se, done |-> FALSE, ret |-> ""]
       \/ \E raw \in RawVariants :
              call = [fn |-> "normalise", arg |-> raw, done |-> FALSE, ret |-> <<>>]

NormaliseSeason ==
    /\ call.fn = "_normalise_season"
    /\ ~call.done
    /\ call' = [call EXCEPT !.done = TRUE, !.ret = _normalise_season(call.arg)]
    /\ UNCHANGED <<store, resp, last>>

\* the body of the loop of add_new_schemes for one raw scheme
NormaliseRaw ==
    /\ call.fn = "normalise"
    /\ ~call.done
    /\ call' = [call EXCEPT !.done = TRUE, !.ret = NormaliseScheme(call.arg)]
    /\ UNCHANGED <<store, resp, last>>

NextIngest == NormaliseSeason \/ NormaliseRaw

SpecIngest == InitIngest /\ [][NextIngest]_vars

-----------------------------------------------------------------------------
(* getEligibleSchemes beside the ingestion operations: the handler reads    *)
(* the store twice, with find and then with count_documents, and the        *)
(* ingestion operations of other threads and processes may run in between.  *)
(* call holds the request in progress.                                      *)

RaceRequests ==
    {[json |-> "dict", data |-> BaseBody, args |-> a] :
        a \in {[x \in {} |-> ""], [limit |-> "1"]}}
    \cup {[json |-> "dict", data |-> SetKey(BaseBody, "land_size", JNum(-1)),
           args |-> [x \in {} |-> ""]]}

\* the handler up to list(cursor): an error response, or the page found
FindSchemes ==
    \E req \in RaceRequests :
        LET e == EligibleQuery(req, store) IN
        /\ call = NoCall
        /\ call' = IF e.done
                   THEN [fn |-> "getEligibleSchemes", pc |-> "done", req |-> req,
                         resp |-> e.resp]
                   ELSE [fn |-> "getEligibleSchemes", pc |-> "count", req |-> req,
                         found |-> e]
        /\ UNCHANGED <<store, resp, last>>

\* total = count_documents(query), the ranking of the page, the response
CountSchemes ==
    /\ call.fn = "getEligibleSchemes"
    /\ call.pc = "count"
    /\ LET e == [call.found EXCEPT !.total = CountDocuments(store, call.found.query)]
       IN  \E sims \in [1..(IF Len(e.page) > 1 THEN Len(e.page) ELSE 0) -> SimValues] :
               call' = [fn |-> "getEligibleSchemes", pc |-> "done", req |-> call.req,
                        resp |-> EligibleResponse(e, sims)]
    /\ UNCHANGED <<store, resp, last>>

\* the response is sent
SendResponse ==
    /\ call.fn = "getEligibleSchemes"
    /\ call.pc = "done"
    /\ call' = NoCall
    /\ UNCHANGED <<store, resp, last>>

\* seed_database, first store operation: schemes_col.drop()
SeedDrop ==
    /\ Idle
    /\ store' = <<>>
    /\ resp' = [op |-> "seed_database", pc |-> "insert_many"]
    /\ last' = [op |-> "seed_database"]
    /\ UNCHANGED call

\* seed_database, second store operation: schemes_col.insert_many(schemes)
SeedInsert ==
    /\ resp = [op |-> "seed_database", pc |-> "insert_many"]
    /\ store' = store \o SeedSchemes
    /\ resp' = [op |-> "seed_database", inserted |-> Len(SeedSchemes)]
    /\ UNCHANGED <<last, call>>

NextRace ==
    \/ FindSchemes
    \/ CountSchemes
    \/ SendResponse
    \/ AddScheme
    \/ AddNewSchemes
    \/ SeedDrop
    \/ SeedInsert
    \/ InsertIntoDb
    \/ Observe

SpecRace == Init /\ [][NextRace]_vars

-----------------------------------------------------------------------------
(* db.py: concurrent calls of _get_client.  call holds the module global    *)
(* _client (0 is None; client k is the k-th MongoClient constructed), the   *)
(* number of clients constructed, and for each request thread its position  *)
(* in _get_client, the client it has constructed and the one it returned.   *)

Threads == 1..MaxThreads

InitClient ==
    /\ store = <<>>
    /\ resp = None
    /\ last = None
    /\ call = [fn |-> "_get_client", client |-> 0, constructed |-> 0,
               pc |-> [t \in Threads |-> "idle"],
               new |-> [t \in Threads |-> 0],
               ret |-> [t \in Threads |-> 0]]

\* a request calls _get_client
EnterGetClient ==
    \E t \in Threads :
        /\ call.pc[t] = "idle"
        /\ call' = [call EXCEPT !.pc[t] = "test"]
        /\ UNCHANGED <<store, resp, last>>

\* if _client is None:
TestClient ==
    \E t \in Threads :
        /\ call.pc[t] = "test"
        /\ call' = [call EXCEPT !.pc[t] = IF call.client = 0 THEN "construct"
                                          ELSE "return"]
        /\ UNCHANGED <<store, resp, last>>

\* MongoClient(MONGO_URI, ...)
ConstructClient ==
    \E t \in Threads :
        /\ call.pc[t] = "construct"
        /\ call' = [call EXCEPT !.constructed = @ + 1,
                                !.new[t] = call.constructed + 1,
                                !.pc[t] = "assign"]
        /\ UNCHANGED <<store, resp, last>>

\* _client = <the new client>
AssignClient ==
    \E t \in Threads :
        /\ call.pc[t] = "assign"
        /\ call' = [call EXCEPT !.client = call.new[t], !.pc[t] = "return"]
        /\ UNCHANGED <<store, resp, last>>

\* return _client
ReturnClient ==
    \E t \in Threads :
        /\ call.pc[t] = "return"
        /\ call' = [call EXCEPT !.ret[t] = call.client, !.pc[t] = "done"]
        /\ UNCHANGED <<store, resp, last>>

NextClient ==
    \/ EnterGetClient
    \/ TestClient
    \/ ConstructClient
    \/ AssignClient
    \/ ReturnClient

SpecClient == InitClient /\ [][NextClient]_vars

RankNames == <<"S1", "S2", "S3", "S4", "S5">>

\* benefit amounts: -2, -1, 0, 0.5 and 20000 rupees (add_scheme stores the
\* benefit_amount of the body as it is)
RankBenefits == {0 - Rs(2), 0 - Rs(1), 0, 1, Rs(20000)}

\* what a scheme given to rank_schemes holds besides its name: a benefit
\* amount, a null benefit amount, or a null min_land
RankShapes ==
    {[benefit_amount |-> JNum(b)] : b \in RankBenefits}
    \cup {[benefit_amount |-> JNull],
          [benefit_amount |-> JNum(0), min_land |-> JNull]}

\* similarities (times 10000) of a direct call: 0, 0.9998 and 0.9999; the
\* last two give the same score once 0.6 * similarity is rounded to 4 places
RankSims == {0, 9998, 9999}

\* the list of schemes of the shapes b (scheme i is named RankNames[i]) with
\* their similarities s
RankInput(b, s) ==
    [schemes |-> [i \in DOMAIN b |-> SetKey(Untag(b[i]), "scheme_name", RankNames[i])],
     sims |-> s]

InitRank ==
    /\ store = <<>>
    /\ resp = None
    /\ last = None
    /\ \E n \in 0..MaxRank :
          \E b \in [1..n -> RankShapes], s \in [1..n -> RankSims] :
              call = [fn |-> "rank_schemes", arg |-> RankInput(b, s),
                      done |-> FALSE, ret |-> <<>>]

RankSchemes ==
    /\ call.fn = "rank_schemes"
    /\ ~call.done
    /\ call' = [call EXCEPT !.done = TRUE,
                            !.ret = rank_schemes(call.arg.schemes, call.arg.sims)]
    /\ UNCHANGED <<store, resp, last>>

NextRank == RankSchemes

SpecRank == InitRank /\ [][NextRank]_vars

-----------------------------------------------------------------------------
(* The claims.  The conditions of the specification's matching predicate,  *)
(* written from its text for a stored document d and a farmer profile p.   *)

StateMatch(d, p) == \E x \in Range(d.states) : x \in {p.state, "All", "All India"}

CropMatch(d, p) == \E x \in Range(d.crops) : x \in {p.crop, "All", "All Crops"}

LandMatch(d, p) == d.min_land <= p.land_size /\ p.land_size <= d.max_land

SeasonGiven(p) == p.season.t = "str"

SeasonMatch(d, p) ==
    SeasonGiven(p) => ("season" \notin DOMAIN d \/ d.season \in {p.season.v, "All", ""})

\* getEligibleSchemes has answered 200 and the answer is still to be read
Answered == last.op = "getEligibleSchemes" /\ resp.status = 200

StoredDocs == {store[i] : i \in 1..Len(store)}

\* d is among the documents the query matched (before skip and limit)
InMatched(d) == \E j \in 1..Len(last.matched) : last.matched[j] = Restrict(d, ProjectionFields)

\* the documents of the response, without the relevance_score the ranker adds
Returned == {Restrict(resp.schemes[i], ProjectionFields) : i \in 1..Len(resp.schemes)}

\* C1: every scheme getEligibleSchemes returns satisfies the state, crop and
\* land-range conditions, and the season condition when a season was given;
\* a scheme failing one of them is not returned.
C1_ReturnedSatisfyAllConditions ==
    Answered =>
        \A d \in Returned :
            /\ StateMatch(d, last.profile)
            /\ CropMatch(d, last.profile)
            /\ LandMatch(d, last.profile)
            /\ SeasonMatch(d, last.profile)

\* C1 witness: a farmer with 5 hectares is answered with some scheme while
\* the store holds a scheme with max_land 2 that meets every other condition
C1_Witness ==
    /\ Answered
    /\ last.profile.land_size = 5
    /\ Returned # {}
    /\ \E d \in StoredDocs :
          /\ d.max_land = 2
          /\ StateMatch(d, last.profile) /\ CropMatch(d, last.profile)
          /\ SeasonMatch(d, last.profile)

StateInNoScheme == \A d \in StoredDocs : last.profile.state \notin Range(d.states)

C4_LandBoundaryInclusive ==
    Answered =>
        \A d \in StoredDocs :
            (/\ StateMatch(d, last.profile)
             /\ CropMatch(d, last.profile)
             /\ SeasonMatch(d, last.profile)
             /\ \/ d.min_land = last.profile.land_size /\ last.profile.land_size <= d.max_land
                \/ d.max_land = last.profile.land_size /\ d.min_land <= last.profile.land_size)
            => InMatched(d)

\* C4 witness: one matched scheme has max_land equal to the land size and
\* another has min_land equal to it
C4_Witness ==
    /\ Answered
    /\ \E d \in StoredDocs :
          InMatched(d) /\ d.max_land = last.profile.land_size /\ d.min_land < d.max_land
    /\ \E d \in StoredDocs :
          InMatched(d) /\ d.min_land = last.profile.land_size /\ d.min_land < d.max_land


\* the request with its season left out, null, or empty
WithoutSeason(req) ==
    {[req EXCEPT !.data = Restrict(req.data, DOMAIN req.data \ {"season"})],
     [req EXCEPT !.data = SetKey(req.data, "season", JNull)],
     [req EXCEPT !.data = SetKey(req.data, "season", JStr(""))]}

\* C5: for the same store, state, crop and land_size, the schemes matched
\* without a season (omitted, null or empty) include every scheme matched
\* with a season; without a season the query has no season condition, so
\* every scheme meeting the other three conditions is matched.
C5_OmittingSeasonNeverReduces ==
    (Answered /\ SeasonGiven(last.profile)) =>
        \A r \in WithoutSeason(last.req) :
            LET e == EligibleQuery(r, store) IN
            /\ ~e.done
            /\ "season_or" \notin DOMAIN e.query
            /\ Range(last.matched) \subseteq Range(e.matched)
            /\ \A d \in StoredDocs :
                  (StateMatch(d, last.profile) /\ CropMatch(d, last.profile)
                   /\ LandMatch(d, last.profile))
                  => Restrict(d, ProjectionFields) \in Range(e.matched)

\* C5 witness: a request with a season matched some scheme and left out
\* another that meets the state, crop and land conditions
C5_Witness ==
    /\ Answered
    /\ SeasonGiven(last.profile)
    /\ last.matched # <<>>
    /\ \E d \in StoredDocs :
          /\ ~InMatched(d)
          /\ StateMatch(d, last.profile) /\ CropMatch(d, last.profile)
          /\ LandMatch(d, last.profile)

\* C6: with a season given, a scheme meeting the other conditions is matched
\* exactly when its season equals the given season, is "All", is "", or the
\* scheme has no season field.
C6_SeasonConditionExact ==
    (Answered /\ SeasonGiven(last.profile)) =>
        \A d \in StoredDocs :
            (StateMatch(d, last.profile) /\ CropMatch(d, last.profile)
             /\ LandMatch(d, last.profile))
            => (InMatched(d) <=>
                    \/ "season" \notin DOMAIN d
                    \/ d.season = last.profile.season.v
                    \/ d.season = "All"
                    \/ d.season = "")

\* C6 witness: with a season given, a scheme without a season field is
\* matched and a scheme of another season is left out
C6_Witness ==
    /\ Answered
    /\ SeasonGiven(last.profile)
    /\ \E d \in StoredDocs : InMatched(d) /\ "season" \notin DOMAIN d
    /\ \E d \in StoredDocs :
          /\ ~InMatched(d)
          /\ StateMatch(d, last.profile) /\ CropMatch(d, last.profile)
          /\ LandMatch(d, last.profile)

AllCropAliases == {"All", "All Crops", "All Notified Crops", "Food Crops", "Agriculture"}

\* C7: a stored scheme whose crops list holds "All" or one of its aliases
\* ("All Crops", "All Notified Crops", "Food Crops", "Agriculture") has no
\* crop restriction: it is matched for every requested crop when its state,
\* land and season conditions hold.
C7_AliasCropsUnrestricted ==
    Answered =>
        \A d \in StoredDocs :
            (/\ Range(d.crops) \cap AllCropAliases # {}
             /\ StateMatch(d, last.profile)
             /\ LandMatch(d, last.profile)
             /\ SeasonMatch(d, last.profile)) => InMatched(d)

\* _normalise_crops has returned
Normalised == call.fn = "_normalise_crops" /\ call.done

\* C8: when the list given to _normalise_crops holds "All" or an alias of it,
\* the result is exactly ["All"], whatever specific crops come with it; and
\* whenever "All" is in a result it is the only element.
C8_AllAbsorbsSpecificCrops ==
    Normalised =>
        /\ (Range(call.arg) \cap AllCropAliases # {} => call.ret = <<"All">>)
        /\ ("All" \in Range(call.ret) => call.ret = <<"All">>)

\* C8 witness: a list with an alias of "All" and two specific crops
C8_Witness ==
    /\ Normalised
    /\ "Food Crops" \in Range(call.arg)
    /\ {"Wheat", "Rice"} \subseteq Range(call.arg)
    /\ call.ret = <<"All">>

\* C9: the schemes of every 200 response of getEligibleSchemes are in
\* non-increasing order of benefit_amount.
C9_ResponseSortedByBenefit ==
    Answered =>
        \A i \in 1..(Len(resp.schemes) - 1) :
            resp.schemes[i].benefit_amount >= resp.schemes[i + 1].benefit_amount

\* rank_schemes has returned
Ranked == call.fn = "rank_schemes" /\ call.done

\* C10: rank_schemes on two or more schemes returns them in non-increasing
\* order of relevance_score, each carrying a relevance_score.
C10_RankedByRelevance ==
    (Ranked /\ Len(call.arg.schemes) >= 2) =>
        /\ \A i \in 1..Len(call.ret) : "relevance_score" \in DOMAIN call.ret[i]
        /\ \A i \in 1..(Len(call.ret) - 1) :
              call.ret[i].relevance_score >= call.ret[i + 1].relevance_score

\* C10 witness: three schemes came back in another order than they went in,
\* with three different scores
C10_Witness ==
    /\ Ranked
    /\ Len(call.ret) >= 3
    /\ call.ret[1].scheme_name # call.arg.schemes[1].scheme_name
    /\ call.ret[1].relevance_score > call.ret[2].relevance_score
    /\ call.ret[2].relevance_score > call.ret[3].relevance_score

\* C11: rank_schemes returns the empty list for the empty list, and for a
\* list of one scheme that scheme with relevance_score 1.0; in both cases the
\* result is the same whatever the similarity step would have given.
C11_EmptyAndSingletonUnranked ==
    (Ranked /\ Len(call.arg.schemes) <= 1) =>
        /\ Len(call.arg.schemes) = 0 => call.ret = <<>>
        /\ Len(call.arg.schemes) = 1 =>
              call.ret = <<SetKey(call.arg.schemes[1], "relevance_score", ScoreScale)>>
        /\ \A s \in [1..Len(call.arg.schemes) -> RankSims] :
              rank_schemes(call.arg.schemes, s) = call.ret

\* C11 witness: one scheme whose similarity is 0 and whose benefit is 0 came
\* back with relevance_score 1.0
C11_Witness ==
    /\ Ranked
    /\ Len(call.arg.schemes) = 1
    /\ call.arg.sims[1] = 0
    /\ "benefit_amount" \in DOMAIN call.arg.schemes[1]
    /\ call.arg.schemes[1].benefit_amount = 0
    /\ call.ret[1].relevance_score = ScoreScale

Failed == Ranked /\ Len(call.arg.schemes) >= 2 /\ RankRaises(call.arg.schemes)

\* C13: when ranking fails (a null benefit_amount, a null min_land), the
\* call still returns: every scheme of the input is in the result, in its
\* input order, with relevance_score 0.5.
C13_FailureFallsBackToNeutralScores ==
    Failed =>
        /\ Len(call.ret) = Len(call.arg.schemes)
        /\ \A i \in 1..Len(call.ret) :
              call.ret[i] = SetKey(call.arg.schemes[i], "relevance_score", ScoreScale \div 2)

\* C13 witness: the second of three schemes has a null benefit_amount, the
\* third would otherwise have outranked the first
C13_Witness ==
    /\ Failed
    /\ Len(call.arg.schemes) = 3
    /\ IsNull(call.arg.schemes[2], "benefit_amount")
    /\ ~IsNull(call.arg.schemes[1], "benefit_amount")
    /\ ~IsNull(call.arg.schemes[3], "benefit_amount")
    /\ call.arg.schemes[3].benefit_amount > call.arg.schemes[1].benefit_amount
    /\ call.arg.sims[3] > call.arg.sims[1]
    /\ call.ret[1].scheme_name = call.arg.schemes[1].scheme_name
    /\ call.ret[3].relevance_score = ScoreScale \div 2

\* rank_schemes scored the list it was given: two or more schemes, no failure
Scored == Ranked /\ Len(call.arg.schemes) >= 2 /\ ~RankRaises(call.arg.schemes)

\* the place in the input list of a scheme of the result
InputIndex(scheme) ==
    CHOOSE i \in 1..Len(call.arg.schemes) :
        call.arg.schemes[i].scheme_name = scheme.scheme_name

\* the largest benefit amount of the input list
LargestBenefit == MaxOf({call.arg.schemes[i].benefit_amount : i \in 1..Len(call.arg.schemes)})

\* C14: for non-negative benefit amounts, the score of each scheme is
\* 0.6 * similarity + 0.4 * benefit_amount / max(M, 1), rounded to 4 places,
\* M being the largest benefit amount of the list (also when 0 < M < 1).
C14_BenefitTermOverMaxOfMAndOne ==
    (Scored /\ \A i \in 1..Len(call.arg.schemes) : call.arg.schemes[i].benefit_amount >= 0) =>
        \A j \in 1..Len(call.ret) :
            LET i == InputIndex(call.ret[j])
                D == Max2(LargestBenefit, BenefitOne)
            IN  call.ret[j].relevance_score =
                    RoundDiv(3 * call.arg.sims[i] * D
                               + 2 * ScoreScale * call.arg.schemes[i].benefit_amount,
                             5 * D)

\* the place in the result of the scheme that was i-th in the input list
OutputIndex(i) ==
    CHOOSE j \in 1..Len(call.ret) :
        call.ret[j].scheme_name = call.arg.schemes[i].scheme_name

\* C15: of two schemes of one list with the same similarity, the one with
\* the strictly larger benefit_amount gets a relevance_score at least as
\* large and is not placed after the other.
C15_LargerBenefitNotRankedLower ==
    Scored =>
        \A i, k \in 1..Len(call.arg.schemes) :
            (/\ call.arg.sims[i] = call.arg.sims[k]
             /\ call.arg.schemes[i].benefit_amount > call.arg.schemes[k].benefit_amount)
            => /\ call.ret[OutputIndex(i)].relevance_score
                    >= call.ret[OutputIndex(k)].relevance_score
               /\ OutputIndex(i) < OutputIndex(k)

\* every scheme of the input list has benefit_amount 0
AllZeroBenefit ==
    \A i \in 1..Len(call.arg.schemes) : call.arg.schemes[i].benefit_amount = 0

\* C16 as stated: when every scheme has benefit_amount 0 the call completes,
\* each score is 0.6 * similarity rounded (the benefit term is 0), and the
\* result is in non-increasing order of similarity.
C16_Original_OrderedBySimilarity ==
    (Scored /\ AllZeroBenefit) =>
        /\ Len(call.ret) = Len(call.arg.schemes)
        /\ \A j \in 1..Len(call.ret) :
              call.ret[j].relevance_score = RoundDiv(3 * call.arg.sims[InputIndex(call.ret[j])], 5)
        /\ \A j \in 1..(Len(call.ret) - 1) :
              call.arg.sims[InputIndex(call.ret[j])]
                  >= call.arg.sims[InputIndex(call.ret[j + 1])]

\* C16 amended: when every scheme has benefit_amount 0 the call completes,
\* each score is 0.6 * similarity rounded to 4 places (the benefit term is
\* 0), and the result is in non-increasing order of that rounded score: a
\* scheme of larger similarity comes first unless the two scores round to
\* the same value, and then the two keep their input order.
C16_AllZeroBenefitRankedByRoundedSimilarity ==
    (Scored /\ AllZeroBenefit) =>
        /\ Len(call.ret) = Len(call.arg.schemes)
        /\ \A j \in 1..Len(call.ret) :
              call.ret[j].relevance_score = RoundDiv(3 * call.arg.sims[InputIndex(call.ret[j])], 5)
        /\ \A i, k \in 1..Len(call.arg.schemes) :
              LET si == RoundDiv(3 * call.arg.sims[i], 5)
                  sk == RoundDiv(3 * call.arg.sims[k], 5)
              IN  (si > sk \/ (si = sk /\ i < k)) => OutputIndex(i) < OutputIndex(k)

\* C16 witness: three schemes of benefit 0 with similarities 0, 0.9998 and
\* 0.9999: the last two both score 0.5999 and keep their input order
C16_Witness ==
    /\ Scored
    /\ AllZeroBenefit
    /\ call.arg.sims = <<0, 9998, 9999>>
    /\ call.ret[1].scheme_name = "S2"
    /\ call.ret[2].scheme_name = "S3"
    /\ call.ret[3].scheme_name = "S1"
    /\ call.ret[1].relevance_score = 5999
    /\ call.ret[2].relevance_score = 5999

\* C17: the sort of rank_schemes is stable: two schemes with the same
\* relevance_score are in the result in the order they had in the input.
C17_EqualScoresKeepInputOrder ==
    Scored =>
        \A i, k \in 1..Len(call.arg.schemes) :
            (/\ i < k
             /\ call.ret[OutputIndex(i)].relevance_score
                    = call.ret[OutputIndex(k)].relevance_score)
            => OutputIndex(i) < OutputIndex(k)

\* C17 witness: the first two of three schemes have the same score, the
\* third a larger one; it came first, the two others kept their order
C17_Witness ==
    /\ Scored
    /\ Len(call.ret) = 3
    /\ call.ret[1].scheme_name = "S3"
    /\ call.ret[2].scheme_name = "S1"
    /\ call.ret[3].scheme_name = "S2"
    /\ call.ret[1].relevance_score > call.ret[2].relevance_score
    /\ call.ret[2].relevance_score = call.ret[3].relevance_score

\* getEligibleSchemes has answered and the answer is still to be read
Handled == last.op = "getEligibleSchemes"

\* the body of a request lacks the string field key, or holds a value that is
\* not a string or is empty once trimmed
StringFieldBad(data, key) ==
    \/ key \notin DOMAIN data
    \/ data[key].t # "str"
    \/ Strip(data[key].v) = ""

\* the body lacks land_size, or holds a value that is not a number, or a
\* number that is not within 0..10000
LandSizeBad(data) ==
    \/ "land_size" \notin DOMAIN data
    \/ data["land_size"].t # "num"
    \/ data["land_size"].v = NaN
    \/ data["land_size"].v < LandMin
    \/ data["land_size"].v > LandMax

\* C18: a request whose body is not a JSON object, or whose state, crop or
\* land_size is missing or malformed, is answered 400 and no query is made.
C18_MalformedRequestRejected ==
    (/\ Handled
     /\ \/ last.req.json # "dict"
        \/ StringFieldBad(last.req.data, "state")
        \/ StringFieldBad(last.req.data, "crop")
        \/ LandSizeBad(last.req.data))
    => (resp.status = 400 /\ "query" \notin DOMAIN last)

\* the body holds under key a value (other than null) that is not a string,
\* or a string that begins with "$"
OperatorLike(data, key) ==
    /\ key \in DOMAIN data
    /\ data[key].t # "null"
    /\ (data[key].t # "str" \/ StartsWithDollar(Strip(data[key].v)))

\* a string the query may hold: it passed the character checks
PlainString(x) == x # "" /\ SafeStringMatch(x) /\ ~StartsWithDollar(x)

\* the query of the last request is built from validated strings only
QueryFromPlainStrings ==
    /\ \A x \in last.query.states_in \cup last.query.crops_in : PlainString(x)
    /\ "season_or" \in DOMAIN last.query =>
          \A x \in last.query.season_or \ {""} : PlainString(x)

\* C19 as stated: a state, crop or season value that is not a string or that
\* begins with "$" is rejected with 400, and every query is built from
\* validated strings only.
C19_Original_OperatorLikeRejected ==
    Handled =>
        /\ (\E key \in {"state", "crop", "season"} : OperatorLike(last.req.data, key))
              => resp.status = 400
        /\ "query" \in DOMAIN last => QueryFromPlainStrings

\* C19 amended: a state or crop value that is not a string or begins with
\* "$" is rejected with 400, and so is such a season value unless it is falsy
\* (null, false, 0, an empty list or object), which is ignored like a missing
\* season; every query is built from validated strings only.
C19_NoOperatorReachesQuery ==
    Handled =>
        /\ (\/ OperatorLike(last.req.data, "state")
            \/ OperatorLike(last.req.data, "crop")
            \/ OperatorLike(last.req.data, "season") /\ Truthy(last.req.data["season"]))
              => (resp.status = 400 /\ "query" \notin DOMAIN last)
        /\ (/\ resp.status = 200
            /\ "season" \in DOMAIN last.req.data
            /\ ~Truthy(last.req.data["season"]))
              => "season_or" \notin DOMAIN last.query
        /\ "query" \in DOMAIN last => QueryFromPlainStrings

\* C19 witness: a request whose state is "$gt" was answered 400
C19_Witness ==
    /\ Handled
    /\ "state" \in DOMAIN last.req.data
    /\ last.req.data["state"] = JStr("$gt")
    /\ resp.status = 400

\* C20: a request is only accepted with a land_size that is a finite number
\* within 0..10000; a boolean, a non-number, a negative number, an infinity
\* or NaN is answered 400 and no query is built.
C20_AcceptedLandSizeFinite ==
    Handled =>
        /\ resp.status = 200 =>
              (/\ last.profile.land_size # NaN
               /\ last.profile.land_size # Infinity
               /\ last.profile.land_size >= LandMin
               /\ last.profile.land_size <= LandMax)
        /\ (/\ last.req.json = "dict"
            /\ "land_size" \in DOMAIN last.req.data
            /\ \/ last.req.data["land_size"].t # "num"
               \/ last.req.data["land_size"].v \in {NaN, Infinity}
               \/ last.req.data["land_size"].v < LandMin)
              => (resp.status = 400 /\ "query" \notin DOMAIN last)

\* C21: the store never failing, every getEligibleSchemes request ends in a
\* 200 with a list of schemes (possibly empty) or in a 400 that names the
\* offending field; it never ends in a 500.
C21_OkOrValidationError ==
    Handled =>
        \/ resp.status = 200 /\ resp.count = Len(resp.schemes)
        \/ resp.status = 400 /\ "field" \in DOMAIN resp

\* C22: no two stored records share a scheme_name, whatever sequence of
\* seed_database, add_new_schemes, insert_into_db and addScheme has run.
C22_SchemeNameUnique ==
    \A i, j \in 1..Len(store) :
        store[i].scheme_name = store[j].scheme_name => i = j

\* C23: every stored record carries canonical values: its states do not hold
\* "All India", its crops hold no alias of "All" other than "All" itself, and
\* its season is not "Kharif/Rabi".
C23_StoredRecordsCanonical ==
    \A i \in 1..Len(store) :
        /\ "All India" \notin Range(store[i].states)
        /\ Range(store[i].crops) \cap (AllCropAliases \ {"All"}) = {}
        /\ "season" \in DOMAIN store[i] => store[i].season # "Kharif/Rabi"

\* C24: the record add_new_schemes builds holds min_land 0 and max_land 100
\* when the raw value is absent or null, and the raw value itself for every
\* number supplied, 0 included.
C24_LandDefaultsOnlyWhenAbsentOrNull ==
    (call.fn = "normalise" /\ call.done) =>
        /\ call.ret.min_land =
              (IF "min_land" \in DOMAIN call.arg /\ call.arg["min_land"].t = "num"
               THEN call.arg["min_land"].v ELSE DefaultMinLand)
        /\ call.ret.max_land =
              (IF "max_land" \in DOMAIN call.arg /\ call.arg["max_land"].t = "num"
               THEN call.arg["max_land"].v ELSE DefaultMaxLand)

\* the call of _normalise_season has returned
SeasonNormalised == call.fn = "_normalise_season" /\ call.done

\* C25 as stated: an absent, null or empty season, "All" and "Kharif/Rabi"
\* give "All", and every other season string is returned unchanged.
C25_Original_OtherStringsUnchanged ==
    SeasonNormalised =>
        call.ret = (IF call.arg \in {JNull, JStr(""), JStr("All"), JStr("Kharif/Rabi")}
                    THEN "All" ELSE call.arg.v)

\* C25: _normalise_season gives "All" for an absent, null or empty season,
\* for "All" and "all", and for "Kharif/Rabi" and "kharif/rabi"; it returns
\* every other season string unchanged, never returns an empty value, and
\* normalising its result changes nothing.
C25_SeasonNormalisation ==
    SeasonNormalised =>
        /\ call.ret = (IF call.arg \in {JNull, JStr(""), JStr("All"), JStr("all"),
                                        JStr("Kharif/Rabi"), JStr("kharif/rabi")}
                       THEN "All" ELSE call.arg.v)
        /\ call.ret # ""
        /\ _normalise_season(JStr(call.ret)) = call.ret

\* C25 witness: the legacy composite season was normalised to "All"
C25_Witness ==
    /\ SeasonNormalised
    /\ call.arg = JStr("Kharif/Rabi")
    /\ call.ret = "All"

\* C26: whatever the interleaving of concurrent first calls of _get_client,
\* at most one MongoClient is constructed and every caller that has returned
\* holds the same client.
C26_SingleClient ==
    call.fn = "_get_client" =>
        /\ call.constructed <= 1
        /\ \A t, u \in Threads :
              (call.pc[t] = "done" /\ call.pc[u] = "done") => call.ret[t] = call.ret[u]

\* a scheme without the relevance_score the ranker adds
WithoutScore(d) == Restrict(d, DOMAIN d \ {"relevance_score"})

\* how many elements of the list s are, their score apart, the scheme d
Occurrences(s, d) == Cardinality({i \in 1..Len(s) : WithoutScore(s[i]) = WithoutScore(d)})

\* C27: rank_schemes returns a permutation of its input: every scheme occurs
\* in the result as often as in the input, none dropped and none duplicated,
\* whether the list was scored, held one scheme, or ranking failed; apart
\* from relevance_score no field of a scheme is added or changed.
C27_ResultIsPermutationOfInput ==
    Ranked =>
        /\ Len(call.ret) = Len(call.arg.schemes)
        /\ \A i \in 1..Len(call.arg.schemes) :
              Occurrences(call.ret, call.arg.schemes[i])
                  = Occurrences(call.arg.schemes, call.arg.schemes[i])
        /\ \A j \in 1..Len(call.ret) :
              Occurrences(call.arg.schemes, call.ret[j]) = Occurrences(call.ret, call.ret[j])

\* C27 witness: three schemes were scored and came out in another order, the
\* last of the input first, one of them with the score 0
C27_Witness ==
    /\ Scored
    /\ Len(call.arg.schemes) = 3
    /\ call.ret[1].scheme_name = call.arg.schemes[3].scheme_name
    /\ call.ret[3].relevance_score = 0
    /\ {call.ret[j].scheme_name : j \in 1..3} = {call.arg.schemes[i].scheme_name : i \in 1..3}

\* C28: a successful getEligibleSchemes response has count equal to the
\* number of schemes returned, count <= limit <= MAX_PAGE_SIZE and page >= 1,
\* for every integer page and limit, zero and negative ones included.
C28_CountWithinLimit ==
    Answered =>
        /\ resp.count = Len(resp.schemes)
        /\ resp.count <= resp.limit
        /\ resp.limit <= MAX_PAGE_SIZE
        /\ resp.page >= 1

\* C29: the page and the total of one getEligibleSchemes response describe
\* the same store contents, so that count <= total, also when ingestion
\* operations run between the handler's find and its count_documents.
C29_CountAtMostTotal ==
    (call.fn = "getEligibleSchemes" /\ call.pc = "done" /\ call.resp.status = 200) =>
        call.resp.count <= call.resp.total

\* the scheme names a store holds
NamesIn(st) == {st[i].scheme_name : i \in 1..Len(st)}

\* C30: a run of add_new_schemes leaves every record the store held as it
\* was and in its place, inserts only schemes whose scheme_name the store
\* did not hold, and a second run with the same file would find nothing to
\* insert, leaving the store as the first run left it.
C30_AddNewSchemesIdempotent ==
    [][(last.op = "none" /\ last'.op = "add_new_schemes") =>
          /\ Len(store') >= Len(store)
          /\ SubSeq(store', 1, Len(store)) = store
          /\ \A i \in (Len(store) + 1)..Len(store') :
                store'[i].scheme_name \notin NamesIn(store)
          /\ ToInsert(last'.file, store') = <<>>
          /\ store' \o ToInsert(last'.file, store') = store']_vars

\* C30 witness: a run with a file of two schemes on a store that held one of
\* them has inserted the other one only
C30_Witness ==
    /\ last.op = "add_new_schemes"
    /\ Len(last.file) = 2
    /\ resp.inserted = 1
    /\ Len(store) = 2
    /\ last.file[1]["scheme_name"].v = store[1].scheme_name
    /\ last.file[2]["scheme_name"].v = store[2].scheme_name

=============================================================================
